---- MODULE Spec2Model ----
(***************************************************************************)
(* The Uniswap V2 Protocol facade (src/src/v2/protocol.rs): one Factory    *)
(* and one Router behind a single API.  The facade's methods are modelled  *)
(* from protocol.rs.  Factory, Router, ProtocolType::try_addresses and the *)
(* chain client are defined in other files of the crate; they are modelled *)
(* from spec.md (sections 3, 4.1, 4.2, 5, 6, 7).  Router::swap follows the *)
(* numbered steps of spec.md 4.2 in their order.                           *)
(***************************************************************************)
EXTENDS Integers, Sequences, FiniteSets, TLC

VARIABLES
    proto,      \* the Protocol instance, or NoProtocol before construction
    ret,        \* what the last call returned to the caller (Idle: nothing held)
    held,       \* a pool handle the caller kept from an earlier pair_for
    pending     \* a swap suspended at its quote query (NoPending: none)

vars == <<proto, ret, held, pending>>

(* ------------------------------ bounds -------------------------------- *)

\* Token addresses are 1..MaxAddr; their numeric order is the byte order.
MaxAddr == 3
\* Swap paths have 0..MaxPathLen entries.
MaxPathLen == 3
\* Liquidity and swap amounts are 0..MaxAmount.
MaxAmount == 2
\* Deadlines are 0..MaxDeadline.
MaxDeadline == 0

(* ------------------------------ domains ------------------------------- *)

None == "None"

Addresses == 1..MaxAddr
Amounts == 0..MaxAmount
Deadlines == 0..MaxDeadline

\* Option<Chain> (protocol.rs:61): three chains and the absent value.
Chains == {"Mainnet", "Goerli", "Ganache"}
OptChains == Chains \cup {None}

ProtocolTypes == {"UniswapV2", "Sushiswap"}

FactoryAddrs == {"F1", "F2"}
RouterAddrs == {"R1", "R2"}

\* Amount (protocol.rs:156): a quantity tagged exact-input or exact-output.
AmountKinds == {"ExactIn", "ExactOut"}
SwapAmounts == [kind : AmountKinds, value : 1..MaxAmount]

\* f32 slippage tolerances (protocol.rs:157) as fractions num/den:
\* -0.01, 0.0, 0.01, 0.999, 1.0, 1.5, and NaN written 0/0.
NaN == [num |-> 0, den |-> 0]
Frac(n, d) == [num |-> n, den |-> d]
Tolerances ==
    {Frac(-1, 100), Frac(0, 1), Frac(1, 100), Frac(999, 1000),
     Frac(1, 1), Frac(3, 2), NaN}

RECURSIVE SeqsUpTo(_, _)
SeqsUpTo(S, n) ==
    IF n = 0 THEN {<<>>}
    ELSE LET shorter == SeqsUpTo(S, n - 1)
         IN  shorter \cup {Append(s, x) : s \in {t \in shorter : Len(t) = n - 1}, x \in S}

Paths == SeqsUpTo(Addresses, MaxPathLen)

\* What the chain client answers to a quote query: a transport failure or
\* the expected amount at the other end of the path.
TransportError == -1
Quotes == {0, 7, 1000}
QuoteReplies == Quotes \cup {TransportError}

(* ------------------------------ results ------------------------------- *)

NoCall == [fn |-> "none"]
Ok(call) == [tag |-> "Ok", call |-> call, err |-> "none"]
Err(e) == [tag |-> "Err", call |-> NoCall, err |-> e]

\* A value returned by a call, with the number of requests the call issued
\* through the chain client.
Returned(v, q) == [val |-> v, queries |-> q]

\* What the caller holds after a call: the operation, the arguments as
\* the caller gave them, the value, the requests issued through the chain
\* client, and the quote's answer when one was asked for.
Result(op, args, r, reply) ==
    [op |-> op, args |-> args, val |-> r.val, queries |-> r.queries, reply |-> reply]

\* No quote was asked for (a number, like the answers it stands beside).
Unasked == -2
Idle == Result("idle", <<>>, Returned(None, 0), Unasked)
NoFactory == [address |-> None, chain |-> None, protocol |-> None]
NoRouter == [address |-> None]
NoProtocol == [built |-> FALSE, factory |-> NoFactory, router |-> NoRouter]
NoHandle == [a |-> 0, b |-> 0, factory |-> None, chain |-> None, address |-> <<>>]
NoPending == [state |-> "none"]

(* ------------------------- addressbook (external) --------------------- *)

\* ProtocolType::try_addresses(chain) (protocol.rs:45): the factory and the
\* router address, each possibly absent.  The table is a sample with every
\* combination: both listed, factory only, router only, neither.
TryAddresses(protocol, chain) ==
    CASE protocol = "UniswapV2" /\ chain = "Mainnet" -> <<"F1", "R1">>
      [] protocol = "UniswapV2" /\ chain = "Goerli" -> <<"F1", None>>
      [] protocol = "Sushiswap" /\ chain = "Mainnet" -> <<"F2", "R2">>
      [] protocol = "Sushiswap" /\ chain = "Goerli" -> <<None, "R2">>
      [] OTHER -> <<None, None>>

(* ------------------------------ Factory ------------------------------- *)

\* Factory::new: an address, no chain yet, the protocol variant.
Factory_new(address, protocol) ==
    [address |-> address, chain |-> None, protocol |-> protocol]

Factory_chain(f) == f.chain

Factory_set_chain(f, chain) == [f EXCEPT !.chain = chain]

\* The chains a protocol variant has a pool code hash for.
KnownChains(protocol) ==
    IF protocol = "UniswapV2" THEN {"Mainnet", "Goerli"} ELSE {"Mainnet"}

\* The variant's generic fingerprint, used for an absent or unknown chain.
FallbackCodeHash(protocol) == <<"codehash", protocol, "generic">>

\* Factory::pair_code_hash(chain?): a pure lookup for the given chain, or
\* the configured one when none is given.
Factory_pair_code_hash(f, chain) ==
    LET c == IF chain # None THEN chain ELSE f.chain
    IN  IF c \in KnownChains(f.protocol)
        THEN <<"codehash", f.protocol, c>>
        ELSE FallbackCodeHash(f.protocol)

\* Tokens in ascending address order.
SortTokens(a, b) == IF a < b THEN <<a, b>> ELSE <<b, a>>

\* The salt derived from the ordered pair (a hash, kept symbolic).
PairSalt(t0, t1) == <<"keccak", t0, t1>>

\* The deterministic-deployment address of deployer, salt and code hash
\* (a hash, kept symbolic: equal exactly when its inputs are equal).
Create2(deployer, salt, codeHash) == <<"create2", deployer, salt, codeHash>>

\* Factory::pair_for: offline derivation of the pool address.
Factory_pair_for(f, a, b) ==
    LET t == SortTokens(a, b)
    IN  Returned(Create2(f.address, PairSalt(t[1], t[2]),
                         Factory_pair_code_hash(f, None)), 0)

\* factory.contract().create_pair: an unsent call on the factory contract.
Factory_contract_create_pair(f, a, b) ==
    [target |-> f.address, fn |-> "createPair", args |-> <<a, b>>]

(* ------------------------------- Router ------------------------------- *)

Router_new(address) == [address |-> address]

\* Router::add_liquidity: amountAMin <= amountADesired and amountBMin <=
\* amountBDesired, else InvalidAmount; otherwise the arguments go unchanged
\* to the contract-call builder.  Nothing is sent.
Router_add_liquidity(r, token_a, token_b, amount_a_desired, amount_b_desired, amount_a_min, amount_b_min, to, deadline) ==
    IF amount_a_min > amount_a_desired \/ amount_b_min > amount_b_desired
    THEN Returned(Err("InvalidAmount"), 0)
    ELSE Returned(Ok([target |-> r.address, fn |-> "addLiquidity",
                      args |-> <<token_a, token_b, amount_a_desired,
                                 amount_b_desired, amount_a_min, amount_b_min,
                                 to, deadline>>]), 0)

\* Router::remove_liquidity: liquidity > 0, else a validation failure;
\* otherwise the arguments go unchanged to the contract-call builder.
Router_remove_liquidity(r, token_a, token_b, liquidity, amount_a_min, amount_b_min, to, deadline) ==
    IF ~(liquidity > 0)
    THEN Returned(Err("InvalidAmount"), 0)
    ELSE Returned(Ok([target |-> r.address, fn |-> "removeLiquidity",
                      args |-> <<token_a, token_b, liquidity, amount_a_min,
                                 amount_b_min, to, deadline>>]), 0)

\* The range check with its upper end included.
ValidSlippage_inclusive(tol) == tol.den > 0 /\ 0 <= tol.num /\ tol.num <= tol.den

\* 0.0 <= slippageTolerance < 1.0 (false of NaN, as every comparison is).
ValidSlippage(tol) == tol.den > 0 /\ 0 <= tol.num /\ tol.num < tol.den

\* The exact-input bound rounded up instead of down.
MinOut_rounded_up(expected, tol) == (expected * (tol.den - tol.num) + tol.den - 1) \div tol.den

\* Exact-input bound: expectedOut * (1 - tol), rounded down.
MinOut(expected, tol) == (expected * (tol.den - tol.num)) \div tol.den

\* The exact-output bound rounded down instead of up.
MaxIn_rounded_down(expected, tol) == (expected * (tol.den + tol.num)) \div tol.den

\* Exact-output bound: expectedIn * (1 + tol), rounded up.
MaxIn(expected, tol) ==
    (expected * (tol.den + tol.num) + tol.den - 1) \div tol.den

\* The entry point's route, from whether the path's ends are the native
\* wrapper; both ends native is no swap at all.
SwapRoute(path, weth) ==
    LET fromNative == path[1] = weth
        toNative == path[Len(path)] = weth
    IN  CASE fromNative /\ toNative -> "NativeToNative"
          [] fromNative /\ ~toNative -> "NativeToToken"
          [] ~fromNative /\ toNative -> "TokenToNative"
          [] OTHER -> "TokenToToken"

\* Router::swap up to its suspension point (steps 1 to 4): the path and the
\* tolerance are validated, then the quote query is issued through the
\* chain client and the call waits for the answer.
Router_swap_begin(r, factory, amount, slippage_tolerance, path, to, deadline, weth) ==
    IF Len(path) < 2
    THEN [state |-> "done", result |-> Returned(Err("InvalidPath"), 0)]
    ELSE IF ~ValidSlippage(slippage_tolerance)
    THEN [state |-> "done", result |-> Returned(Err("InvalidSlippage"), 0)]
    ELSE [state |-> "awaiting", router |-> r, factory |-> factory,
          amount |-> amount, tol |-> slippage_tolerance, path |-> path,
          to |-> to, deadline |-> deadline, weth |-> weth, queries |-> 1]

\* Router::swap from the quote's answer on (steps 5 to 7): a transport
\* failure is passed through; otherwise the slippage bound is applied, the
\* entry point selected (native to native rejected) and the call built.
Router_swap_resume(p, reply) ==
    IF reply = TransportError
    THEN Returned(Err("TransportFailure"), p.queries)
    ELSE LET limit == IF p.amount.kind = "ExactIn"
                      THEN MinOut(reply, p.tol)
                      ELSE MaxIn(reply, p.tol)
             route == SwapRoute(p.path, p.weth)
         IN  IF route = "NativeToNative"
             THEN Returned(Err("InvalidPath"), p.queries)
             ELSE Returned(Ok([target |-> p.router.address,
                               fn |-> <<p.amount.kind, route>>,
                               amount |-> p.amount.value, limit |-> limit,
                               path |-> p.path, to |-> p.to,
                               deadline |-> p.deadline]), p.queries)

(* --------------------------- Protocol facade -------------------------- *)

\* Protocol::new (protocol.rs:34-38).
Protocol_new(factory, router, protocol) ==
    [built |-> TRUE, factory |-> Factory_new(factory, protocol),
     router |-> Router_new(router)]

\* new_with_chain asking only for the factory address.
Protocol_new_with_chain_factory_only(chain, protocol) ==
    LET found == TryAddresses(protocol, chain)
    IN  IF found[1] # None
        THEN LET this == Protocol_new(found[1], found[2], protocol)
             IN  [this EXCEPT !.factory = Factory_set_chain(this.factory, chain)]
        ELSE NoProtocol

\* new_with_chain leaving the chain of the new instance unset.
Protocol_new_with_chain_chain_unset(chain, protocol) ==
    LET found == TryAddresses(protocol, chain)
    IN  IF found[1] # None /\ found[2] # None
        THEN Protocol_new(found[1], found[2], protocol)
        ELSE NoProtocol

\* Protocol::new_with_chain (protocol.rs:44-52): an instance when the
\* addressbook lists both addresses, the absent value otherwise.
Protocol_new_with_chain(chain, protocol) ==
    LET found == TryAddresses(protocol, chain)
    IN  IF found[1] # None /\ found[2] # None
        THEN LET this == Protocol_new(found[1], found[2], protocol)
             IN  [this EXCEPT !.factory = Factory_set_chain(this.factory, chain)]
        ELSE NoProtocol

\* Protocol::chain (protocol.rs:61-63).
Protocol_chain(self) == Factory_chain(self.factory)

\* set_chain that does not reach the factory.
Protocol_set_chain_dropped(self, chain) == self

\* Protocol::set_chain (protocol.rs:67-69).
Protocol_set_chain(self, chain) ==
    [self EXCEPT !.factory = Factory_set_chain(self.factory, chain)]

\* pair_codehash dropping its argument.
Protocol_pair_codehash_no_arg(self, chain) ==
    Returned(Factory_pair_code_hash(self.factory, None), 0)

\* Protocol::pair_codehash (protocol.rs:81-83).
Protocol_pair_codehash(self, chain) ==
    Returned(Factory_pair_code_hash(self.factory, chain), 0)

\* create_pair with its two tokens in the other order.
Protocol_create_pair_reversed(self, token_a, token_b) ==
    Returned(Factory_contract_create_pair(self.factory, token_b, token_a), 0)

\* Protocol::create_pair (protocol.rs:87-89).
Protocol_create_pair(self, token_a, token_b) ==
    Returned(Factory_contract_create_pair(self.factory, token_a, token_b), 0)

\* pair_for passing token_a twice.
Protocol_pair_for_same_token(self, token_a, token_b) ==
    Factory_pair_for(self.factory, token_a, token_a)

\* pair_for asking the factory contract (getPair) through the chain client.
Protocol_pair_for_on_chain(self, token_a, token_b) ==
    Returned(Factory_pair_for(self.factory, token_a, token_b).val, 1)

\* Protocol::pair_for (protocol.rs:93-95).
Protocol_pair_for(self, token_a, token_b) ==
    Factory_pair_for(self.factory, token_a, token_b)

\* add_liquidity with the desired and minimum amounts of token A exchanged.
Protocol_add_liquidity_min_first(self, token_a, token_b, amount_a_desired, amount_b_desired, amount_a_min, amount_b_min, to, deadline) ==
    Router_add_liquidity(self.router, token_a, token_b, amount_a_min,
                         amount_b_desired, amount_a_desired, amount_b_min, to,
                         deadline)

\* Protocol::add_liquidity (protocol.rs:106-127).
Protocol_add_liquidity(self, token_a, token_b, amount_a_desired, amount_b_desired, amount_a_min, amount_b_min, to, deadline) ==
    Router_add_liquidity(self.router, token_a, token_b, amount_a_desired,
                         amount_b_desired, amount_a_min, amount_b_min, to,
                         deadline)

\* remove_liquidity with liquidity and the minimum of token A exchanged.
Protocol_remove_liquidity_min_first(self, token_a, token_b, liquidity, amount_a_min, amount_b_min, to, deadline) ==
    Router_remove_liquidity(self.router, token_a, token_b, amount_a_min,
                            liquidity, amount_b_min, to, deadline)

\* Protocol::remove_liquidity (protocol.rs:131-150).
Protocol_remove_liquidity(self, token_a, token_b, liquidity, amount_a_min, amount_b_min, to, deadline) ==
    Router_remove_liquidity(self.router, token_a, token_b, liquidity,
                            amount_a_min, amount_b_min, to, deadline)

\* swap with the recipient and the native wrapper exchanged.
Protocol_swap_to_weth_swapped(self, amount, slippage_tolerance, path, to, deadline, weth) ==
    Router_swap_begin(self.router, self.factory, amount, slippage_tolerance,
                      path, weth, deadline, to)

\* Protocol::swap (protocol.rs:154-164), up to the await.
Protocol_swap(self, amount, slippage_tolerance, path, to, deadline, weth) ==
    Router_swap_begin(self.router, self.factory, amount, slippage_tolerance,
                      path, to, deadline, weth)

\* swap asking for the quote a second time when the first query failed.
Protocol_swap_resume_retry(p, reply) ==
    LET r == Router_swap_resume(p, reply)
    IN  IF reply = TransportError THEN Returned(r.val, r.queries + 1) ELSE r

\* Protocol::swap (protocol.rs:163), from the await on: the router's
\* result is the facade's result.
Protocol_swap_resume(p, reply) == Router_swap_resume(p, reply)

(* ------------------------------ actions ------------------------------- *)

CallerReady == ret.op = "idle" /\ pending.state = "none"

Init ==
    /\ proto = NoProtocol
    /\ ret = Idle
    /\ held = NoHandle
    /\ pending = NoPending

New(factory, router, protocol) ==
    /\ CallerReady /\ ~proto.built
    /\ proto' = Protocol_new(factory, router, protocol)
    /\ ret' = Result("new", <<factory, router, protocol>>, Returned("Some", 0), Unasked)
    /\ UNCHANGED <<held, pending>>

NewWithChain(chain, protocol) ==
    /\ CallerReady /\ ~proto.built
    /\ LET this == Protocol_new_with_chain(chain, protocol)
       IN  /\ proto' = this
           /\ ret' = Result("new_with_chain", <<chain, protocol>>,
                            Returned(IF this.built THEN "Some" ELSE "None", 0), Unasked)
    /\ UNCHANGED <<held, pending>>

GetChain ==
    /\ CallerReady /\ proto.built
    /\ ret' = Result("chain", <<>>, Returned(Protocol_chain(proto), 0), Unasked)
    /\ UNCHANGED <<proto, held, pending>>

SetChain(chain) ==
    /\ CallerReady /\ proto.built
    /\ proto' = Protocol_set_chain(proto, chain)
    /\ ret' = Result("set_chain", <<chain>>, Returned(None, 0), Unasked)
    /\ UNCHANGED <<held, pending>>

PairCodehash(chain) ==
    /\ CallerReady /\ proto.built
    /\ ret' = Result("pair_codehash", <<chain>>, Protocol_pair_codehash(proto, chain), Unasked)
    /\ UNCHANGED <<proto, held, pending>>

CreatePair(token_a, token_b) ==
    /\ CallerReady /\ proto.built
    /\ ret' = Result("create_pair", <<token_a, token_b>>,
                     Protocol_create_pair(proto, token_a, token_b), Unasked)
    /\ UNCHANGED <<proto, held, pending>>

PairFor(token_a, token_b) ==
    /\ CallerReady /\ proto.built
    /\ ret' = Result("pair_for", <<token_a, token_b>>,
                     Protocol_pair_for(proto, token_a, token_b), Unasked)
    /\ UNCHANGED <<proto, held, pending>>

AddLiquidity(token_a, token_b, a_desired, b_desired, a_min, b_min, to, deadline) ==
    /\ CallerReady /\ proto.built
    /\ ret' = Result("add_liquidity",
                     <<token_a, token_b, a_desired, b_desired, a_min, b_min, to, deadline>>,
                     Protocol_add_liquidity(proto, token_a, token_b, a_desired, b_desired,
                                            a_min, b_min, to, deadline), Unasked)
    /\ UNCHANGED <<proto, held, pending>>

RemoveLiquidity(token_a, token_b, liquidity, a_min, b_min, to, deadline) ==
    /\ CallerReady /\ proto.built
    /\ ret' = Result("remove_liquidity",
                     <<token_a, token_b, liquidity, a_min, b_min, to, deadline>>,
                     Protocol_remove_liquidity(proto, token_a, token_b, liquidity, a_min,
                                               b_min, to, deadline), Unasked)
    /\ UNCHANGED <<proto, held, pending>>

\* swap up to its await: either it has failed validation and returns, or
\* its quote query is in flight.
Swap(amount, tol, path, to, deadline, weth) ==
    /\ CallerReady /\ proto.built
    /\ LET args == <<amount, tol, path, to, deadline, weth>>
           p == Protocol_swap(proto, amount, tol, path, to, deadline, weth)
       IN  IF p.state = "done"
           THEN /\ ret' = Result("swap", args, p.result, Unasked)
                /\ pending' = pending
           ELSE /\ pending' = [state |-> "awaiting", args |-> args, call |-> p]
                /\ ret' = ret
    /\ UNCHANGED <<proto, held>>

\* The chain client answers the quote query and swap runs to its end.
QuoteReply(reply) ==
    /\ pending.state = "awaiting"
    /\ ret' = Result("swap", pending.args, Protocol_swap_resume(pending.call, reply), reply)
    /\ pending' = NoPending
    /\ UNCHANGED <<proto, held>>

\* The caller takes the result; a pool handle may be kept for later.
Consume ==
    /\ ret.op # "idle"
    /\ ret' = Idle
    /\ \/ /\ ret.op = "pair_for"
          /\ held' = [a |-> ret.args[1], b |-> ret.args[2],
                      factory |-> proto.factory.address,
                      chain |-> proto.factory.chain, address |-> ret.val]
       \/ held' = held
    /\ UNCHANGED <<proto, pending>>

(* --------------------------- specifications --------------------------- *)

\* A call starts only when the caller holds no result and no swap is
\* suspended (the guard of every operation, stated once before its inputs
\* are drawn).
CanCall == CallerReady /\ proto.built
CanConstruct == CallerReady /\ ~proto.built

\* The facade's life: construction, the chain accessors, the Factory side.
Next ==
    \/ CanConstruct /\ \E f \in FactoryAddrs, r \in RouterAddrs, p \in ProtocolTypes : New(f, r, p)
    \/ CanConstruct /\ \E c \in Chains, p \in ProtocolTypes : NewWithChain(c, p)
    \/ GetChain
    \/ CanCall /\ \E c \in Chains : SetChain(c)
    \/ CanCall /\ \E c \in OptChains : PairCodehash(c)
    \/ CanCall /\ \E a \in Addresses, b \in Addresses : CreatePair(a, b)
    \/ CanCall /\ \E a \in Addresses, b \in Addresses : PairFor(a, b)
    \/ Consume

Spec == Init /\ [][Next]_vars

\* The Router side of a constructed instance.
RouterInit ==
    /\ proto \in {Protocol_new(f, "R1", "UniswapV2") : f \in FactoryAddrs}
                 \cup {Protocol_new_with_chain("Mainnet", "Sushiswap")}
    /\ ret = Idle
    /\ held = NoHandle
    /\ pending = NoPending

RouterNext ==
    \/ CanCall /\ \E a \in Addresses, b \in Addresses, ad \in Amounts, bd \in Amounts,
                     am \in Amounts, bm \in Amounts, to \in Addresses, d \in Deadlines :
                       AddLiquidity(a, b, ad, bd, am, bm, to, d)
    \/ CanCall /\ \E a \in Addresses, b \in Addresses, l \in Amounts, am \in Amounts,
                     bm \in Amounts, to \in Addresses, d \in Deadlines :
                       RemoveLiquidity(a, b, l, am, bm, to, d)
    \/ CanCall /\ \E amount \in SwapAmounts, tol \in Tolerances, path \in Paths,
                     to \in Addresses, d \in Deadlines, weth \in Addresses :
                       Swap(amount, tol, path, to, d, weth)
    \/ \E reply \in QuoteReplies : QuoteReply(reply)
    \/ Consume

RouterSpec == RouterInit /\ [][RouterNext]_vars

\* The whole facade on one instance: the facade's life together with the
\* Router side, the Router side drawing from a sample of its inputs.
SamplePaths == {p \in Paths : Len(p) \in {1, 2}}
SampleTolerances == {Frac(1, 100), Frac(3, 2)}

FullNext ==
    \/ Next
    \/ CanCall /\ \E ad \in Amounts, am \in Amounts : AddLiquidity(1, 2, ad, 1, am, 1, 2, 0)
    \/ CanCall /\ \E l \in Amounts, am \in Amounts : RemoveLiquidity(1, 2, l, am, 0, 2, 0)
    \/ CanCall /\ \E k \in AmountKinds, tol \in SampleTolerances, path \in SamplePaths,
                     to \in {1, 2} :
                       Swap([kind |-> k, value |-> 1], tol, path, to, 0, 1)
    \/ \E reply \in QuoteReplies : QuoteReply(reply)

FullSpec == Init /\ [][FullNext]_vars

(* ------------------------------- claims ------------------------------- *)

\* The configuration the kept handle was derived under is the current one.
HeldUnderCurrentConfig ==
    /\ held.a # 0
    /\ held.factory = proto.factory.address
    /\ held.chain = proto.factory.chain

\* C1: pair_for(A, B) and pair_for(B, A) yield the same pool address for
\* distinct A and B on one Protocol with a fixed factory address and
\* chain: the address just returned for (A, B) is the one the facade
\* derives for (B, A), and the one a kept handle for (B, A) carries.
C1_PairForSymmetric ==
    (ret.op = "pair_for" /\ ret.args[1] # ret.args[2]) =>
        /\ ret.val = Protocol_pair_for(proto, ret.args[2], ret.args[1]).val
        /\ (HeldUnderCurrentConfig /\ held.a = ret.args[2] /\ held.b = ret.args[1])
              => held.address = ret.val

C1_Witness ==
    /\ ret.op = "pair_for" /\ ret.args[1] > ret.args[2]
    /\ HeldUnderCurrentConfig /\ held.a = ret.args[2] /\ held.b = ret.args[1]
    /\ held.address = ret.val

C3_PairCodehashLookup ==
    ret.op = "pair_codehash" =>
        LET c == IF ret.args[1] # None THEN ret.args[1] ELSE proto.factory.chain
            variant == proto.factory.protocol
        IN  /\ ret.queries = 0
            /\ ret.val = IF c \in KnownChains(variant)
                         THEN <<"codehash", variant, c>>
                         ELSE <<"codehash", variant, "generic">>

C3_Witness ==
    /\ ret.op = "pair_codehash" /\ ret.args[1] = "Ganache"
    /\ proto.factory.chain = "Mainnet"
    /\ ret.val = <<"codehash", proto.factory.protocol, "generic">>

\* C4: add_liquidity fails with InvalidAmount whenever amountAMin >
\* amountADesired or amountBMin > amountBDesired, and otherwise builds a
\* call on the router carrying the eight arguments unchanged.
C4_AddLiquidityValidates ==
    ret.op = "add_liquidity" =>
        IF ret.args[5] > ret.args[3] \/ ret.args[6] > ret.args[4]
        THEN ret.val.tag = "Err" /\ ret.val.err = "InvalidAmount"
        ELSE /\ ret.val.tag = "Ok"
             /\ ret.val.call.target = proto.router.address
             /\ ret.val.call.fn = "addLiquidity"
             /\ ret.val.call.args = ret.args

C4_Witness ==
    /\ ret.op = "add_liquidity"
    /\ ret.args[5] > ret.args[3] /\ ret.args[6] <= ret.args[4]
    /\ ret.val.err = "InvalidAmount"

\* C9: new_with_chain returns None, and no instance, whenever the
\* addressbook lacks the factory or the router address of the requested
\* (chain, protocol); it returns an instance, with both listed addresses
\* and the chain set, only when both are listed.
C9_NewWithChainAbsence ==
    ret.op = "new_with_chain" =>
        LET found == TryAddresses(ret.args[2], ret.args[1])
        IN  IF found[1] = None \/ found[2] = None
            THEN ret.val = "None" /\ ~proto.built
            ELSE /\ ret.val = "Some" /\ proto.built
                 /\ proto.factory.address = found[1]
                 /\ proto.router.address = found[2]
                 /\ proto.factory.chain = ret.args[1]

C9_Witness ==
    /\ ret.op = "new_with_chain" /\ ret.val = "None" /\ ~proto.built
    /\ TryAddresses(ret.args[2], ret.args[1])[1] # None
    /\ TryAddresses(ret.args[2], ret.args[1])[2] = None

\* The arguments of the swap call whose result the caller holds.
SwapAmount == ret.args[1]
SwapTol == ret.args[2]
SwapPath == ret.args[3]
SwapWeth == ret.args[6]

C6_InvalidSlippageExactly ==
    (ret.op = "swap" /\ Len(SwapPath) >= 2) =>
        /\ (ret.val.err = "InvalidSlippage") <=>
              ~(SwapTol.den > 0 /\ 0 <= SwapTol.num /\ SwapTol.num < SwapTol.den)
        /\ SwapTol \in {Frac(-1, 100), Frac(1, 1), Frac(3, 2)}
              => ret.val.err = "InvalidSlippage"
        /\ SwapTol \in {Frac(0, 1), Frac(999, 1000)}
              => ret.val.err # "InvalidSlippage"

C6_Witness ==
    /\ ret.op = "swap" /\ Len(SwapPath) >= 2
    /\ SwapTol = Frac(1, 1) /\ ret.val.err = "InvalidSlippage"

C12_EntryPointByEnds ==
    (ret.op = "swap" /\ Len(SwapPath) >= 2 /\ ret.reply \in Quotes) =>
        LET fromNative == SwapPath[1] = SwapWeth
            toNative == SwapPath[Len(SwapPath)] = SwapWeth
        IN  IF fromNative /\ toNative
            THEN ret.val.tag = "Err" /\ ret.val.err = "InvalidPath"
            ELSE /\ ret.val.tag = "Ok"
                 /\ ret.val.call.fn[1] = SwapAmount.kind
                 /\ ret.val.call.fn[2] =
                        IF fromNative THEN "NativeToToken"
                        ELSE IF toNative THEN "TokenToNative"
                        ELSE "TokenToToken"

C12_Witness ==
    /\ ret.op = "swap" /\ Len(SwapPath) = 3 /\ ret.reply \in Quotes
    /\ SwapPath[1] = SwapWeth /\ SwapPath[3] = SwapWeth /\ SwapPath[2] # SwapWeth
    /\ ret.val.err = "InvalidPath"

\* C13: Protocol.chain() is its Factory's chain(): a set_chain(c) makes it
\* c, a successful new_with_chain(c, ..) makes it c, and no step other
\* than set_chain and construction changes it; so after any sequence of
\* operations it is the chain of the most recent set_chain, or the one
\* given to new_with_chain when set_chain was never called.
C13_ChainSingleSource ==
    [][LET isSetChain == ret.op = "idle" /\ ret'.op = "set_chain"
           isNewWithChain == ret.op = "idle" /\ ret'.op = "new_with_chain"
           isNew == ret.op = "idle" /\ ret'.op = "new"
       IN  /\ isSetChain => Protocol_chain(proto') = ret'.args[1]
           /\ (isNewWithChain /\ ret'.val = "Some") => Protocol_chain(proto') = ret'.args[1]
           /\ ~(isSetChain \/ isNewWithChain \/ isNew)
                 => Protocol_chain(proto') = Protocol_chain(proto)
           /\ ret'.op = "chain" => ret'.val = Factory_chain(proto'.factory)
           /\ Protocol_chain(proto') = Factory_chain(proto'.factory)]_vars

\* chain() answers Goerli, which only a set_chain can have set: the
\* addressbook constructs for Mainnet alone.
C13_Witness ==
    /\ ret.op = "chain" /\ ret.val = "Goerli"
    /\ proto.factory.chain = "Goerli"

\* The pool code hash of a protocol variant on a chain.
CodeHashOn(variant, chain) ==
    IF chain \in KnownChains(variant)
    THEN <<"codehash", variant, chain>>
    ELSE <<"codehash", variant, "generic">>

\* C14: set_chain changes only the configured chain: the step leaves a
\* kept pool handle, the factory address, the protocol variant and the
\* router as they were and makes the chain the one given; a kept handle
\* carries the code hash of the chain it was derived under, and a pair_for
\* result the code hash of the chain configured when it was called.
C14_SetChainFrame ==
    [][/\ (ret.op = "idle" /\ ret'.op = "set_chain") =>
              /\ held' = held
              /\ proto'.factory.address = proto.factory.address
              /\ proto'.factory.protocol = proto.factory.protocol
              /\ proto'.router = proto.router
              /\ proto'.factory.chain = ret'.args[1]
       /\ ret'.op = "pair_for" =>
              ret'.val[4] = CodeHashOn(proto'.factory.protocol, proto'.factory.chain)
       /\ held'.a # 0 =>
              held'.address[4] = CodeHashOn(proto'.factory.protocol, held'.chain)]_vars

\* A handle kept from before a set_chain differs from the one pair_for
\* now derives for the same tokens.
C14_Witness ==
    /\ held.a # 0 /\ held.factory = proto.factory.address
    /\ held.chain # proto.factory.chain
    /\ ret.op = "pair_for" /\ ret.args = <<held.a, held.b>>
    /\ ret.val # held.address
    /\ held.address[4] = CodeHashOn(proto.factory.protocol, held.chain)

\* C15: remove_liquidity validates liquidity > 0: with liquidity = 0 it
\* returns a validation failure and builds no call; with liquidity > 0 it
\* builds a call on the router, carrying the arguments, for every pair of
\* minimum amounts.
C15_RemoveLiquidityValidates ==
    ret.op = "remove_liquidity" =>
        IF ret.args[3] = 0
        THEN /\ ret.val.tag = "Err" /\ ret.val.err = "InvalidAmount"
             /\ ret.val.call = NoCall /\ ret.queries = 0
        ELSE /\ ret.val.tag = "Ok"
             /\ ret.val.call.target = proto.router.address
             /\ ret.val.call.fn = "removeLiquidity"
             /\ ret.val.call.args = ret.args

C15_Witness ==
    /\ ret.op = "remove_liquidity" /\ ret.args[3] = 0 /\ ret.args[4] > 0
    /\ ret.val.tag = "Err" /\ ret.val.call = NoCall

\* C16: the facade is a pure delegation: pair_codehash, create_pair,
\* pair_for, add_liquidity, remove_liquidity and swap give what the
\* Factory or Router of the same instance gives for the same arguments in
\* the same order (swap with the instance's own Factory); the facade
\* validates nothing and changes no argument.
C16_FacadeDelegates ==
    LET a == ret.args
        got == Returned(ret.val, ret.queries)
    IN  /\ ret.op = "pair_codehash" =>
              got = Returned(Factory_pair_code_hash(proto.factory, a[1]), 0)
        /\ ret.op = "create_pair" =>
              got = Returned(Factory_contract_create_pair(proto.factory, a[1], a[2]), 0)
        /\ ret.op = "pair_for" =>
              got = Factory_pair_for(proto.factory, a[1], a[2])
        /\ ret.op = "add_liquidity" =>
              got = Router_add_liquidity(proto.router, a[1], a[2], a[3], a[4], a[5], a[6], a[7], a[8])
        /\ ret.op = "remove_liquidity" =>
              got = Router_remove_liquidity(proto.router, a[1], a[2], a[3], a[4], a[5], a[6], a[7])
        /\ ret.op = "swap" =>
              LET begun == Router_swap_begin(proto.router, proto.factory, a[1], a[2], a[3], a[4], a[5], a[6])
              IN  IF begun.state = "done"
                  THEN ret.reply = Unasked /\ got = begun.result
                  ELSE ret.reply # Unasked /\ got = Router_swap_resume(begun, ret.reply)
        /\ pending.state = "awaiting" =>
              LET b == pending.args
              IN  pending.call = Router_swap_begin(proto.router, proto.factory, b[1], b[2], b[3], b[4], b[5], b[6])

\* A swap waits for its quote, asked with the instance's own factory,
\* whose chain a set_chain has made Goerli.
C16_Witness ==
    /\ pending.state = "awaiting"
    /\ pending.call.factory = proto.factory /\ proto.factory.chain = "Goerli"
    /\ pending.call.to = pending.args[4] /\ pending.call.weth = pending.args[6]
    /\ pending.args[4] # pending.args[6]

====
